---- MODULE Spec2Model ----
(***************************************************************************)
(* Tennis Connect API (src/main.py, src/schemas.py): five document         *)
(* collections, one create and one list handler per collection, a          *)
(* diagnostic handler, and the referential check of create_booking.        *)
(*                                                                         *)
(* Conventions of the model                                                *)
(*   - a JSON payload is a record whose domain is the set of keys sent;    *)
(*   - Optional[T] is a sequence of length 0 (None) or 1 (a value);        *)
(*   - a List[str] is a sequence of strings;                               *)
(*   - a float is an integer, a date is a day number;                      *)
(*   - an ObjectId is a positive integer; the text of an identifier is a   *)
(*     record [form, oid]: "lower" and "upper" are the 24 hex digits of    *)
(*     oid written in lower or upper case, "empty" is the string "" and    *)
(*     "nothex" a string such as "not-a-valid-id".                         *)
(***************************************************************************)
EXTENDS Integers, Sequences, FiniteSets, TLC

VARIABLES db, nextOid, last

vars == <<db, nextOid, last>>

(* Bounds of the model. *)
MaxOid == 3
MaxDay == 2

(* Defaults of the limit query parameters. *)
BlogLimit == 50
ListLimit == 100

Collections == {"blogpost", "tournament", "classvideo", "trainer", "booking"}

None == <<>>
Some(v) == <<v>>

Days == 1..MaxDay
Oids == 1..MaxOid

(* ---------------------------------------------------------------------- *)
(* Identifiers                                                            *)
(* ---------------------------------------------------------------------- *)

EmptyText == [form |-> "empty", oid |-> 0]
NotHexText == [form |-> "nothex", oid |-> 0]

(* str(ObjectId): the lower-case hex rendering. *)
ObjectIdStr(oid) == [form |-> "lower", oid |-> oid]

(* bson.ObjectId(text): 24 hex digits of either case are accepted. *)
IsValidObjectId(text) == text.form \in {"lower", "upper"}

(* Mutant: the text is handed to the lookup without being parsed. *)
to_object_id_Unchecked(text) == [ok |-> TRUE, oid |-> text.oid]

(* to_object_id: the ObjectId of a well-formed text, or HTTP 400. *)
to_object_id(text) ==
    IF IsValidObjectId(text)
    THEN [ok |-> TRUE, oid |-> text.oid]
    ELSE [ok |-> FALSE, status |-> 400, detail |-> "Invalid ID format"]

(* Python truthiness of a str, and of an Optional[str]. *)
TruthyStr(s) == s # ""
TruthyIdText(text) == text.form # "empty"
TruthyOptStr(o) == o # None /\ TruthyStr(o[1])
TruthyOptIdText(o) == o # None /\ TruthyIdText(o[1])

(* ---------------------------------------------------------------------- *)
(* Schemas (pydantic models)                                              *)
(* ---------------------------------------------------------------------- *)

(* Mutant: posts are drafts unless published is sent. *)
BlogPost_Unpublished ==
    [required |-> {"title", "content", "author_name"},
     defaults |-> [tags |-> <<>>, published |-> FALSE]]

BlogPost ==
    [required |-> {"title", "content", "author_name"},
     defaults |-> [tags |-> <<>>, published |-> TRUE]]

Tournament ==
    [required |-> {"name", "country", "start_date", "end_date"},
     defaults |-> [city |-> None, surface |-> None, level |-> None]]

ClassVideo ==
    [required |-> {"title"},
     defaults |-> [description |-> None, level |-> None, video_url |-> None,
                   is_premium |-> FALSE, price |-> None]]

Trainer ==
    [required |-> {"name", "country", "hourly_rate"},
     defaults |-> [city |-> None, languages |-> <<>>, bio |-> None,
                   rating |-> None]]

Booking ==
    [required |-> {"trainer_id", "user_name", "user_email", "session_date",
                   "duration_hours"},
     defaults |-> [tournament_id |-> None, notes |-> None,
                   status |-> "pending"]]

Schema(kind) ==
    CASE kind = "blogpost" -> BlogPost
      [] kind = "tournament" -> Tournament
      [] kind = "classvideo" -> ClassVideo
      [] kind = "trainer" -> Trainer
      [] kind = "booking" -> Booking

(* Field constraints: ge, le, gt. The result is the set of offending fields. *)
ClassVideoBad(p) ==
    {f \in {"price"} \cap DOMAIN p : p[f] # None /\ ~(p[f][1] >= 0)}

TrainerBad(p) ==
    {f \in {"hourly_rate"} \cap DOMAIN p : ~(p[f] >= 0)}
    \cup {f \in {"rating"} \cap DOMAIN p :
            p[f] # None /\ ~(p[f][1] >= 0 /\ p[f][1] <= 5)}

BookingBad(p) ==
    {f \in {"duration_hours"} \cap DOMAIN p : ~(p[f] > 0)}

BadFields(kind, p) ==
    CASE kind = "classvideo" -> ClassVideoBad(p)
      [] kind = "trainer" -> TrainerBad(p)
      [] kind = "booking" -> BookingBad(p)
      [] OTHER -> {}

(* Model validation: every offending field is reported, or the entity with *)
(* defaults filled in is produced.                                         *)
Validate(kind, p) ==
    LET s == Schema(kind)
        missing == s.required \ DOMAIN p
        bad == BadFields(kind, p)
        fields == s.required \cup DOMAIN s.defaults
    IN  IF missing \cup bad # {}
        THEN [ok |-> FALSE, fields |-> missing \cup bad]
        ELSE [ok |-> TRUE,
              entity |-> [f \in fields |->
                            IF f \in DOMAIN p THEN p[f] ELSE s.defaults[f]]]

(* ---------------------------------------------------------------------- *)
(* Storage (database module): documents in insertion order                *)
(* ---------------------------------------------------------------------- *)

Range(seq) == {seq[i] : i \in DOMAIN seq}

ArrayFields == {"tags", "languages"}
OptionalFields == {"city", "surface", "level", "description", "video_url",
                   "price", "bio", "rating", "tournament_id", "notes"}

Eq(v) == [op |-> "eq", value |-> v]
Gte(v) == [op |-> "gte", value |-> v]

(* One condition of a filter mapping against one document: exact match    *)
(* (an array field matches when it holds the value, a null field matches  *)
(* nothing) or greater-than-or-equal.                                     *)
MatchesField(doc, f, cond) ==
    /\ f \in DOMAIN doc
    /\ IF cond.op = "gte" THEN doc[f] >= cond.value
       ELSE IF f \in ArrayFields THEN cond.value \in Range(doc[f])
       ELSE IF f \in OptionalFields THEN doc[f] = Some(cond.value)
       ELSE doc[f] = cond.value

Matches(doc, filter_dict) ==
    \A f \in DOMAIN filter_dict : MatchesField(doc, f, filter_dict[f])

RECURSIVE SelectDocs(_, _)
SelectDocs(docs, filter_dict) ==
    IF docs = <<>> THEN <<>>
    ELSE LET rest == SelectDocs(Tail(docs), filter_dict)
         IN  IF Matches(Head(docs), filter_dict)
             THEN <<Head(docs)>> \o rest
             ELSE rest

Take(seq, n) == SubSeq(seq, 1, IF Len(seq) < n THEN Len(seq) ELSE n)

(* findMany: the first `limit` documents of the collection that match. *)
get_documents(collection_name, filter_dict, limit) ==
    Take(SelectDocs(db[collection_name], filter_dict), limit)

(* findOne by identifier: None or the document. *)
find_one(collection_name, oid) ==
    LET hits == SelectDocs(db[collection_name], [_id |-> Eq(oid)])
    IN  IF hits = <<>> THEN None ELSE Some(hits[1])

WithId(entity, oid) ==
    [f \in DOMAIN entity \cup {"_id"} |->
        IF f = "_id" THEN oid ELSE entity[f]]

(* insert: one new document, with a fresh identifier, at the end of the   *)
(* collection; the identifier is returned as a string.                    *)
create_document(collection_name, entity) ==
    /\ nextOid <= MaxOid
    /\ db' = [db EXCEPT ![collection_name] =
                Append(@, WithId(entity, nextOid))]
    /\ nextOid' = nextOid + 1

inserted_id == ObjectIdStr(nextOid)

(* d["_id"] = str(d.get("_id")) for every returned document. *)
RenderIds(docs) ==
    [i \in DOMAIN docs |->
        [docs[i] EXCEPT !["_id"] = ObjectIdStr(docs[i]["_id"])]]

(* ---------------------------------------------------------------------- *)
(* Requests and responses                                                 *)
(* ---------------------------------------------------------------------- *)

(* The server takes a request when no response is outstanding (last is    *)
(* Idle), runs its handler to completion and holds the response until it  *)
(* is sent. `last` names the handler, the request it served and what it   *)
(* returned; `calls` lists the storage lookups the handler made, in order.*)
Idle == [op |-> "idle"]

Response(op, req, status, body, calls) ==
    [op |-> op, req |-> req, status |-> status, body |-> body,
     calls |-> calls]

Created(op, req, id, calls) == Response(op, req, 200, [id |-> id], calls)
Listed(op, req, docs) == Response(op, req, 200, [docs |-> docs], <<>>)
Unprocessable(op, req, fields) ==
    Response(op, req, 422, [detail |-> "validation error", fields |-> fields],
             <<>>)
HTTPException(op, req, status, detail, calls) ==
    Response(op, req, status, [detail |-> detail], calls)

Fails(resp) == /\ last' = resp
               /\ UNCHANGED <<db, nextOid>>

(* Mutant: the payload is written before it is validated. *)
CreateHandler_WriteFirst(op, kind, payload) ==
    LET v == Validate(kind, payload)
    IN  /\ create_document(kind, IF v.ok THEN v.entity ELSE payload)
        /\ last' = IF v.ok THEN Created(op, payload, inserted_id, <<>>)
                   ELSE Unprocessable(op, payload, v.fields)

(* filter_dict[f] = v, set only under cond. *)
Only(cond, f, v) == IF cond THEN f :> v ELSE <<>>

(* A create handler without entity-specific checks. *)
CreateHandler(op, kind, payload) ==
    LET v == Validate(kind, payload)
    IN  IF ~v.ok
        THEN Fails(Unprocessable(op, payload, v.fields))
        ELSE /\ create_document(kind, v.entity)
             /\ last' = Created(op, payload, inserted_id, <<>>)

(* Mutant: the documents returned are taken out of the collection. *)
ListHandler_Drains(op, kind, req, filter_dict, limit) ==
    LET docs == get_documents(kind, filter_dict, limit)
    IN  /\ last' = Listed(op, req, RenderIds(docs))
        /\ db' = [db EXCEPT ![kind] =
                    SelectSeq(@, LAMBDA d : d \notin Range(docs))]
        /\ UNCHANGED nextOid

(* A list handler: the filter it built, the limit, and the rendering. *)
ListHandler(op, kind, req, filter_dict, limit) ==
    /\ last' = Listed(op, req,
                      RenderIds(get_documents(kind, filter_dict, limit)))
    /\ UNCHANGED <<db, nextOid>>

(* ---------------------------------------------------------------------- *)
(* Handlers                                                               *)
(* ---------------------------------------------------------------------- *)

read_root ==
    /\ last = Idle
    /\ Fails(Response("read_root", <<>>, 200,
                      [message |-> "Tennis Connect Backend Running"], <<>>))

test_database ==
    /\ last = Idle
    /\ Fails(Response("test_database", <<>>, 200,
                      [database |-> "Connected & Working",
                       collections |-> {c \in Collections : db[c] # <<>>}],
                      <<>>))

create_blog(post) ==
    /\ last = Idle
    /\ CreateHandler("create_blog", "blogpost", post)

list_blogs(tag, limit) ==
    LET filter_dict == ("published" :> Eq(TRUE))
                       @@ Only(TruthyOptStr(tag), "tags", Eq(tag[1]))
    IN  /\ last = Idle
        /\ ListHandler("list_blogs", "blogpost",
                       [tag |-> tag, limit |-> limit], filter_dict, limit)

create_tournament(t) ==
    /\ last = Idle
    /\ CreateHandler("create_tournament", "tournament", t)

(* Mutant: the date condition is set only when no country is given. *)
list_tournaments_ElseIf(country, upcoming_only, limit, today) ==
    LET filter_dict ==
            IF TruthyOptStr(country) THEN "country" :> Eq(country[1])
            ELSE Only(upcoming_only, "start_date", Gte(today))
    IN  /\ last = Idle
        /\ ListHandler("list_tournaments", "tournament",
                       [country |-> country, upcoming_only |-> upcoming_only,
                        limit |-> limit, today |-> today],
                       filter_dict, limit)

(* `today` is what date.today() returns during the call. *)
list_tournaments(country, upcoming_only, limit, today) ==
    LET filter_dict == Only(TruthyOptStr(country), "country", Eq(country[1]))
                       @@ Only(upcoming_only, "start_date", Gte(today))
    IN  /\ last = Idle
        /\ ListHandler("list_tournaments", "tournament",
                       [country |-> country, upcoming_only |-> upcoming_only,
                        limit |-> limit, today |-> today],
                       filter_dict, limit)

create_class_video(v) ==
    /\ last = Idle
    /\ CreateHandler("create_class_video", "classvideo", v)

(* Mutant: `if premium:` in place of `if premium is not None:`. *)
list_class_videos_Truthy(premium, limit) ==
    LET filter_dict == Only(premium = Some(TRUE), "is_premium", Eq(TRUE))
    IN  /\ last = Idle
        /\ ListHandler("list_class_videos", "classvideo",
                       [premium |-> premium, limit |-> limit],
                       filter_dict, limit)

list_class_videos(premium, limit) ==
    LET filter_dict == Only(premium # None, "is_premium", Eq(premium[1]))
    IN  /\ last = Idle
        /\ ListHandler("list_class_videos", "classvideo",
                       [premium |-> premium, limit |-> limit],
                       filter_dict, limit)

create_trainer(t) ==
    /\ last = Idle
    /\ CreateHandler("create_trainer", "trainer", t)

list_trainers(country, city, limit) ==
    LET filter_dict == Only(TruthyOptStr(country), "country", Eq(country[1]))
                       @@ Only(TruthyOptStr(city), "city", Eq(city[1]))
    IN  /\ last = Idle
        /\ ListHandler("list_trainers", "trainer",
                       [country |-> country, city |-> city, limit |-> limit],
                       filter_dict, limit)

(* Mutant: the trainer is looked up in the tournament collection. *)
TrainerExists_WrongCollection(oid) == find_one("tournament", oid) # None

(* The two existence checks and the test that guards the second one. *)
TrainerExists(oid) == find_one("trainer", oid) # None
TournamentExists(oid) == find_one("tournament", oid) # None
HasTournament(b) == TruthyOptIdText(b.tournament_id)

InsertBooking(payload, b, calls) ==
    /\ create_document("booking", b)
    /\ last' = Created("create_booking", payload, inserted_id, calls)

BookingHandler(payload) ==
    LET op == "create_booking"
        v == Validate("booking", payload)
    IN  IF ~v.ok THEN Fails(Unprocessable(op, payload, v.fields))
        ELSE
        LET b == v.entity
            tr == to_object_id(b.trainer_id)
        IN  IF ~tr.ok
            THEN Fails(HTTPException(op, payload, tr.status, tr.detail, <<>>))
            ELSE IF ~TrainerExists(tr.oid)
            THEN Fails(HTTPException(op, payload, 404, "Trainer not found",
                                     <<"trainer">>))
            ELSE IF HasTournament(b)
            THEN LET to == to_object_id(b.tournament_id[1])
                 IN  IF ~to.ok
                     THEN Fails(HTTPException(op, payload, to.status,
                                              to.detail, <<"trainer">>))
                     ELSE IF ~TournamentExists(to.oid)
                     THEN Fails(HTTPException(op, payload, 404,
                                              "Tournament not found",
                                              <<"trainer", "tournament">>))
                     ELSE InsertBooking(payload, b,
                                        <<"trainer", "tournament">>)
            ELSE InsertBooking(payload, b, <<"trainer">>)

create_booking(payload) ==
    /\ last = Idle
    /\ BookingHandler(payload)

list_bookings(trainer_id, user_email, limit) ==
    LET filter_dict ==
            Only(TruthyOptIdText(trainer_id), "trainer_id", Eq(trainer_id[1]))
            @@ Only(TruthyOptStr(user_email), "user_email", Eq(user_email[1]))
    IN  /\ last = Idle
        /\ ListHandler("list_bookings", "booking",
                       [trainer_id |-> trainer_id, user_email |-> user_email,
                        limit |-> limit],
                       filter_dict, limit)

(* The response is sent; the server takes the next request. *)
SendResponse ==
    /\ last # Idle
    /\ last' = Idle
    /\ UNCHANGED <<db, nextOid>>

(* ---------------------------------------------------------------------- *)
(* Requests                                                               *)
(* ---------------------------------------------------------------------- *)

(* f without the key k: a payload that omits a field. *)
Without(f, k) == [x \in DOMAIN f \ {k} |-> f[x]]

IdTexts ==
    {ObjectIdStr(o) : o \in Oids}
    \cup {[form |-> "upper", oid |-> 1], EmptyText, NotHexText}

BlogBase == [title |-> "Clay season", content |-> "text", author_name |-> "Ana"]
BlogPayloads ==
    {BlogBase,
     BlogBase @@ [tags |-> <<"clay">>, published |-> FALSE],
     Without(BlogBase, "title")}

TournamentBase == [name |-> "Open", country |-> "ES", start_date |-> 1,
                   end_date |-> 1]
TournamentPayloads ==
    {[TournamentBase EXCEPT !.start_date = d] : d \in {1, MaxDay}}
    \cup {[TournamentBase EXCEPT !.country = "FR", !.start_date = MaxDay]
            @@ [city |-> Some("Paris")],
          Without(TournamentBase, "start_date")}

ClassBase == [title |-> "Serve basics"]
ClassPayloads ==
    {ClassBase,
     ClassBase @@ [is_premium |-> TRUE, price |-> Some(30)],
     ClassBase @@ [is_premium |-> TRUE, price |-> Some(-1)],
     [is_premium |-> TRUE]}

TrainerBase == [name |-> "Ana Gomez", country |-> "ES", hourly_rate |-> 40]
TrainerPayloads ==
    {TrainerBase @@ [city |-> Some("Madrid")],
     TrainerBase @@ [languages |-> <<"es">>, rating |-> Some(6)],
     [TrainerBase EXCEPT !.hourly_rate = -1],
     Without(TrainerBase, "hourly_rate")}

BookingBase == [trainer_id |-> ObjectIdStr(1), user_name |-> "Jon",
                user_email |-> "jon@x.com", session_date |-> 1,
                duration_hours |-> 1]
BookingPayloads ==
    {[BookingBase EXCEPT !.trainer_id = t] @@ o :
        t \in IdTexts,
        o \in {<<>>, [status |-> "done"]}
              \cup {[tournament_id |-> Some(u)] : u \in IdTexts}}
    \cup {[BookingBase EXCEPT !.duration_hours = 0],
          Without(BookingBase, "trainer_id")}

OptStrs(S) == {None, Some("")} \cup {Some(x) : x \in S}

(* ---------------------------------------------------------------------- *)
(* Specification                                                          *)
(* ---------------------------------------------------------------------- *)

Init ==
    /\ db = [c \in Collections |-> <<>>]
    /\ nextOid = 1
    /\ last = Idle

Next ==
    \/ read_root
    \/ test_database
    \/ \E post \in BlogPayloads : create_blog(post)
    \/ \E tag \in OptStrs({"clay"}), limit \in {1, BlogLimit} :
          list_blogs(tag, limit)
    \/ \E t \in TournamentPayloads : create_tournament(t)
    \/ \E country \in OptStrs({"ES"}), upcoming_only \in BOOLEAN,
          limit \in {ListLimit}, today \in Days :
          list_tournaments(country, upcoming_only, limit, today)
    \/ \E v \in ClassPayloads : create_class_video(v)
    \/ \E premium \in {None, Some(TRUE), Some(FALSE)},
          limit \in {1, ListLimit} :
          list_class_videos(premium, limit)
    \/ \E t \in TrainerPayloads : create_trainer(t)
    \/ \E country \in OptStrs({"ES"}), city \in {None, Some("Madrid")},
          limit \in {ListLimit} :
          list_trainers(country, city, limit)
    \/ \E b \in BookingPayloads : create_booking(b)
    \/ \E trainer_id \in {None, Some(EmptyText), Some(ObjectIdStr(1))},
          user_email \in {None, Some("jon@x.com")},
          limit \in {ListLimit} :
          list_bookings(trainer_id, user_email, limit)
    \/ SendResponse

Spec == Init /\ [][Next]_vars

(* ---------------------------------------------------------------------- *)
(* Properties                                                             *)
(* ---------------------------------------------------------------------- *)

StoredIds(c) == {db[c][i]["_id"] : i \in DOMAIN db[c]}
AllStoredIds == UNION {StoredIds(c) : c \in Collections}
Stored(c) == Range(db[c])

IsPrefix(s, t) == Len(s) <= Len(t) /\ SubSeq(t, 1, Len(s)) = s

CreateOps == {"create_blog", "create_tournament", "create_class_video",
              "create_trainer", "create_booking"}
ReadOps == {"read_root", "test_database", "list_blogs", "list_tournaments",
            "list_class_videos", "list_trainers", "list_bookings"}

KindOf(op) ==
    CASE op = "create_blog" -> "blogpost"
      [] op = "create_tournament" -> "tournament"
      [] op = "create_class_video" -> "classvideo"
      [] op = "create_trainer" -> "trainer"
      [] op = "create_booking" -> "booking"

(* A booking request whose payload passes schema validation is served:    *)
(* the step from the Idle state to its response.                          *)
BookingServed ==
    /\ last = Idle
    /\ last'.op = "create_booking"
    /\ Validate("booking", last'.req).ok

(* The reference a text makes: the identifier it parses to is stored in c. *)
References(text, c) == IsValidObjectId(text) /\ text.oid \in StoredIds(c)

(* C1: every stored Booking has a trainer_id that is the identifier of a   *)
(* stored Trainer and, if its tournament_id is present (not null), a       *)
(* tournament_id that is the identifier of a stored Tournament.            *)
C1_ReferentialInvariant ==
    \A b \in Stored("booking") :
        /\ References(b.trainer_id, "trainer")
        /\ b.tournament_id # None => References(b.tournament_id[1], "tournament")

(* C2: a booking request with a well-formed trainer_id that is not the     *)
(* identifier of a stored Trainer gets 404 "Trainer not found" and the     *)
(* collections are left as they were, whatever else the payload holds.     *)
C2_TrainerNotFound ==
    [][(/\ BookingServed
        /\ IsValidObjectId(last'.req.trainer_id)
        /\ last'.req.trainer_id.oid \notin StoredIds("trainer"))
       => /\ last'.status = 404
          /\ last'.body = [detail |-> "Trainer not found"]
          /\ db' = db]_vars

C2_Witness ==
    /\ last.op = "create_booking"
    /\ last.status = 404
    /\ last.body.detail = "Trainer not found"
    /\ last.req.trainer_id.oid \in StoredIds("tournament")
    /\ "tournament_id" \in DOMAIN last.req
    /\ db["trainer"] # <<>>

(* C3: a booking request with a malformed trainer_id gets 400, never 404,  *)
(* before any lookup is made, and nothing is stored.                       *)
C3_MalformedTrainerId ==
    [][(BookingServed /\ ~IsValidObjectId(last'.req.trainer_id))
       => /\ last'.status = 400
          /\ last'.calls = <<>>
          /\ db' = db]_vars

C3_Witness ==
    /\ last.op = "create_booking"
    /\ last.status = 400
    /\ last.req.trainer_id = NotHexText
    /\ db["trainer"] # <<>>

(* C4: a booking request whose trainer exists and whose tournament_id is   *)
(* present gets 400 when tournament_id is malformed and 404 "Tournament    *)
(* not found" when it is well-formed and not stored; nothing is stored in  *)
(* either case. The empty string is a present, malformed tournament_id.    *)
C4_TournamentChecked ==
    [][(/\ BookingServed
        /\ References(last'.req.trainer_id, "trainer")
        /\ "tournament_id" \in DOMAIN last'.req
        /\ last'.req.tournament_id # None
        /\ ~References(last'.req.tournament_id[1], "tournament"))
       => /\ IF IsValidObjectId(last'.req.tournament_id[1])
             THEN /\ last'.status = 404
                  /\ last'.body = [detail |-> "Tournament not found"]
             ELSE last'.status = 400
          /\ db' = db]_vars

(* C5: every stored Booking has a status among pending, confirmed and      *)
(* canceled.                                                               *)
C5_StatusEnum ==
    \A b \in Stored("booking") : b.status \in {"pending", "confirmed", "canceled"}

(* C6: a create request either adds exactly one document to its own        *)
(* collection, leaves the others alone and returns that document's         *)
(* identifier, or fails and leaves every collection unchanged; a payload   *)
(* missing a required field is rejected with 422 naming the field.         *)
C6_AllOrNothing ==
    [][(last = Idle /\ last'.op \in CreateOps)
       => LET k == KindOf(last'.op)
              missing == Schema(k).required \ DOMAIN last'.req
          IN  /\ last'.status = 200
                 => /\ Len(db'[k]) = Len(db[k]) + 1
                    /\ IsPrefix(db[k], db'[k])
                    /\ \A c \in Collections \ {k} : db'[c] = db[c]
                    /\ IsValidObjectId(last'.body.id)
                    /\ db'[k][Len(db'[k])]["_id"] = last'.body.id.oid
              /\ last'.status # 200 => db' = db
              /\ missing # {}
                 => /\ last'.status = 422
                    /\ missing \subseteq last'.body.fields]_vars

C6_Witness ==
    /\ last.op = "create_booking"
    /\ last.status = 200
    /\ Len(db["booking"]) = 2

(* The defaults of the omitted optional fields. *)
Expected(kind, req) ==
    LET defaults ==
            CASE kind = "blogpost" -> [tags |-> <<>>, published |-> TRUE]
              [] kind = "tournament" ->
                    [city |-> None, surface |-> None, level |-> None]
              [] kind = "classvideo" ->
                    [description |-> None, level |-> None, video_url |-> None,
                     is_premium |-> FALSE, price |-> None]
              [] kind = "trainer" ->
                    [city |-> None, languages |-> <<>>, bio |-> None,
                     rating |-> None]
              [] kind = "booking" ->
                    [tournament_id |-> None, notes |-> None,
                     status |-> "pending"]
    IN  req @@ defaults

(* C7: after a successful create, the document found under the returned    *)
(* identifier is the payload with the defaults filled in for the fields it *)
(* omits.                                                                  *)
C7_RoundTrip ==
    (last.op \in CreateOps /\ last.status = 200)
    => LET k == KindOf(last.op)
           id == to_object_id(last.body.id)
       IN  /\ id.ok
           /\ find_one(k, id.oid) = Some(WithId(Expected(k, last.req), id.oid))

C7_Witness ==
    /\ last.op = "create_blog"
    /\ last.status = 200
    /\ "published" \notin DOMAIN last.req
    /\ Len(db["blogpost"]) = 2

(* The tournaments a country parameter lets through. *)
CountryAllows(country, t) == TruthyOptStr(country) => t.country = country[1]

(* C8: with upcoming_only, every tournament returned starts on or after    *)
(* the date of the call, with or without a country; without upcoming_only  *)
(* the start date keeps no tournament out of the result.                   *)
C8_UpcomingOnly ==
    last.op = "list_tournaments"
    => LET returned ==
               {last.body.docs[i]["_id"].oid : i \in DOMAIN last.body.docs}
       IN  /\ \A i \in DOMAIN last.body.docs :
                LET d == last.body.docs[i]
                IN  /\ d["_id"].oid \in StoredIds("tournament")
                    /\ last.req.upcoming_only => d.start_date >= last.req.today
           /\ (~last.req.upcoming_only /\ Len(last.body.docs) < last.req.limit)
              => \A t \in Stored("tournament") :
                    CountryAllows(last.req.country, t) => t["_id"] \in returned

C8_Witness ==
    /\ last.op = "list_tournaments"
    /\ last.req.upcoming_only
    /\ last.req.country = Some("ES")
    /\ last.body.docs # <<>>
    /\ \E t \in Stored("tournament") :
          t.country = "ES" /\ t.start_date < last.req.today

(* C9: with premium=false no premium video is returned, with premium=true  *)
(* no free one, and with premium omitted every video is eligible.          *)
C9_PremiumFilter ==
    last.op = "list_class_videos"
    => LET docs == last.body.docs
           returned == {docs[i]["_id"].oid : i \in DOMAIN docs}
       IN  /\ \A i \in DOMAIN docs :
                /\ docs[i]["_id"].oid \in StoredIds("classvideo")
                /\ last.req.premium # None
                   => docs[i].is_premium = last.req.premium[1]
           /\ (last.req.premium = None /\ Len(docs) < last.req.limit)
              => StoredIds("classvideo") \subseteq returned

C9_Witness ==
    /\ last.op = "list_class_videos"
    /\ last.req.premium = Some(FALSE)
    /\ last.body.docs # <<>>
    /\ \E v \in Stored("classvideo") : v.is_premium

(* C10: every step keeps every stored document, with its identifier and    *)
(* its fields, where it was; a new document gets an identifier no document *)
(* has had; list and diagnostic requests leave every collection unchanged. *)
C10_CreateThenReadOnly ==
    [][/\ \A c \in Collections :
            /\ IsPrefix(db[c], db'[c])
            /\ \A i \in DOMAIN db'[c] \ DOMAIN db[c] :
                  db'[c][i]["_id"] \notin AllStoredIds
       /\ last'.op \in ReadOps => db' = db]_vars

C10_Witness ==
    /\ last.op = "list_bookings"
    /\ last.body.docs # <<>>
    /\ nextOid > MaxOid

====
